---- MODULE Spec2Model ----
(***************************************************************************)
(* Model of go-data-segment: the Merkle tree over the truncated SHA-256    *)
(* digest (merkleTree/merkleTree.go) and the inclusion-proof verifier      *)
(* (datasegment/inclusion.go).                                             *)
(*                                                                         *)
(* Byte strings are sequences of integer tokens.  A Node (a 32-byte        *)
(* digest) is the token string of the term that produced it, so that the   *)
(* digest is an injective function of its input: two nodes are equal       *)
(* exactly when they were hashed from the same bytes, and a hash of one    *)
(* node (32 bytes) never equals a hash of two nodes (64 bytes).            *)
(***************************************************************************)
EXTENDS Integers, Sequences, FiniteSets, TLC

\* Largest number of leaves of a tree.
MaxLeaves == 5

VARIABLES
  leafData,    \* the input of GrowTree: a sequence of byte strings
  nodes,       \* TreeData.nodes, root level first; << >> while no tree is built
  issued,      \* the ProofData ConstructProof returned last
  issuedErr,   \* whether that call returned an error
  op,          \* the operation whose result the caller holds; "idle" between calls
  call,        \* the arguments of that operation
  result,      \* what that operation returned ("panic" when it aborted)
  veriferData, \* InclusionVerifierData given to ComputeExpectedAuxData
  ip,          \* the InclusionProof it is called on
  ret          \* what ComputeExpectedAuxData returned

vars == <<leafData, nodes, issued, issuedErr, op, call, result,
          veriferData, ip, ret>>
merkleVars == <<leafData, nodes, issued, issuedErr, op, call, result>>
inclVars == <<veriferData, ip, ret>>

(***************************************************************************)
(* Digest primitive                                                        *)
(***************************************************************************)

\* The all-zero node, [digestBytes]byte{}: the value of an unset Node.
ZeroNode == <<0>>

\* sha256.Sum256 with the two top bits cleared, as an injective encoding.
truncatedHash(data) == <<1>> \o data \o <<2>>

computeNode(left, right) == truncatedHash(left \o right)

hashList(input) == [i \in 1..Len(input) |-> truncatedHash(input[i])]

max(x, y) == IF x > y THEN x ELSE y

halfCeil(x) == IF x % 2 = 0 THEN x \div 2 ELSE 1 + x \div 2

getSiblingIdx(idx) == IF idx % 2 = 0 THEN idx + 1 ELSE idx - 1

(***************************************************************************)
(* log2Ceil: the bit-mask table and the loop over it                       *)
(***************************************************************************)

RECURSIVE shr(_, _)
\* value >> k on a non-negative int
shr(value, k) == IF k = 0 \/ value = 0 THEN value ELSE shr(value \div 2, k - 1)

RECURSIVE shl(_, _)
\* value << k, used only where the result stays small
shl(value, k) == IF k = 0 \/ value = 0 THEN value ELSE shl(value * 2, k - 1)

RECURSIVE bitAnd(_, _)
\* a & b on non-negative ints
bitAnd(a, b) ==
  IF a = 0 \/ b = 0 THEN 0
  ELSE (a % 2) * (b % 2) + 2 * bitAnd(a \div 2, b \div 2)

\* tab64[i] has exactly the bits lo .. hi-1 set:
\* 0xFFFFFFFF00000000, 0xFFFF0000, 0xFF00, 0xF0, 0xC, 0x2.
tab64 == << [lo |-> 32, hi |-> 64], [lo |-> 16, hi |-> 32],
            [lo |-> 8,  hi |-> 16], [lo |-> 4,  hi |-> 8],
            [lo |-> 2,  hi |-> 4],  [lo |-> 1,  hi |-> 2] >>

\* (uint64(value) & mask) >> mask.lo, which is zero exactly when the AND is
maskedBits(value, mask) ==
  shr(value, mask.lo) - shl(shr(value, mask.hi), mask.hi - mask.lo)

RECURSIVE log2CeilLoop(_, _, _, _)
log2CeilLoop(i, y, value, j) ==
  IF i >= 6 THEN y
  ELSE LET k == IF maskedBits(value, tab64[i + 1]) = 0 THEN 0 ELSE j
       IN  log2CeilLoop(i + 1, y + k, shr(value, k), j \div 2)

log2Ceil(value) ==
  LET y == IF bitAnd(value, value - 1) = 0 THEN 0 ELSE 1
  IN  log2CeilLoop(0, y, value, 32)

(***************************************************************************)
(* Tree construction                                                       *)
(***************************************************************************)

NewBareTree(elements) ==
  [i \in 1..(1 + log2Ceil(elements)) |-> [k \in 1..(2 ^ (i - 1)) |-> ZeroNode]]

\* A faulty variant of currentLevelOf: the odd node is paired with itself
\* (the "duplicate-last" rule) instead of being hashed alone.
currentLevelOf_DuplicateLast(preLevel) ==
  [k \in 1..halfCeil(Len(preLevel)) |->
     IF 2 * k <= Len(preLevel)
       THEN computeNode(preLevel[2 * k - 1], preLevel[2 * k])
       ELSE computeNode(preLevel[Len(preLevel)], preLevel[Len(preLevel)])]

\* One round of the bottom-up loop: the row above preLevel.
currentLevelOf(preLevel) ==
  [k \in 1..halfCeil(Len(preLevel)) |->
     IF 2 * k <= Len(preLevel)
       THEN computeNode(preLevel[2 * k - 1], preLevel[2 * k])
       ELSE truncatedHash(preLevel[Len(preLevel)])]

RECURSIVE growLevels(_, _, _)
\* for level := ...; level >= 0; level--  (tree rows are 1-based here)
growLevels(tree, preLevel, level) ==
  IF level < 0 THEN tree
  ELSE LET currentLevel == currentLevelOf(preLevel)
       IN  growLevels([tree EXCEPT ![level + 1] = currentLevel],
                      currentLevel, level - 1)

growTreeHashedLeafs(leafs) ==
  LET bare == NewBareTree(Len(leafs))
      tree == [bare EXCEPT ![log2Ceil(Len(leafs)) + 1] = leafs]
  IN  growLevels(tree, leafs, log2Ceil(Len(leafs)) - 1)

\* GrowTree: [err, nodes]
GrowTree(leafs) ==
  IF Len(leafs) = 0
    THEN [err |-> TRUE, nodes |-> << >>]
    ELSE [err |-> FALSE, nodes |-> growTreeHashedLeafs(hashList(leafs))]

Depth(d) == Len(d)

Leafs(d) == Len(d[Len(d)])

GetRoot(d) == d[1][1]

\* d.nodes[lvl][idx] with the source's 0-based level and index
NodeAt(d, lvl, idx) == d[lvl + 1][idx + 1]

\* len(d.nodes[lvl])
Width(d, lvl) == Len(d[lvl + 1])

ValidateFromLeafs(d, leafs) ==
  LET tree == GrowTree(leafs)
  IN  IF tree.err THEN FALSE ELSE d = tree.nodes

Validate(d) == d = growTreeHashedLeafs(d[Depth(d)])

(***************************************************************************)
(* Proof extraction                                                        *)
(***************************************************************************)

\* ProofData{}: what ConstructProof returns next to an error
EmptyProof == [path |-> << >>, lvl |-> 0, idx |-> 0]

RECURSIVE constructProofLoop(_, _, _, _)
\* for currentLvl := lvl; currentLvl >= 1; currentLvl--
constructProofLoop(d, proof, currentLvl, currentIdx) ==
  IF currentLvl < 1 THEN [err |-> FALSE, path |-> proof]
  ELSE IF Width(d, currentLvl) <= currentIdx THEN [err |-> TRUE, path |-> << >>]
  ELSE LET stored ==
             IF Width(d, currentLvl) > getSiblingIdx(currentIdx)
               THEN [proof EXCEPT
                       ![currentLvl] = NodeAt(d, currentLvl, getSiblingIdx(currentIdx))]
               ELSE proof
       IN  constructProofLoop(d, stored, currentLvl - 1, currentIdx \div 2)

\* ConstructProof: [err, proof]
ConstructProof(d, lvl, idx) ==
  IF lvl < 1 \/ lvl >= Depth(d) THEN [err |-> TRUE, proof |-> EmptyProof]
  ELSE IF idx < 0 THEN [err |-> TRUE, proof |-> EmptyProof]
  ELSE LET walk == constructProofLoop(d, [k \in 1..lvl |-> ZeroNode], lvl, idx)
       IN  IF walk.err
             THEN [err |-> TRUE, proof |-> EmptyProof]
             ELSE [err |-> FALSE,
                   proof |-> [path |-> walk.path, lvl |-> lvl, idx |-> idx]]

RECURSIVE commonCtr(_, _, _, _)
\* The scan for the first index where the two paths differ; -1 when an index
\* is out of range of one of the paths (the run aborts).
commonCtr(leftPath, rightPath, ctr, maxLength) ==
  IF ctr >= maxLength THEN ctr
  ELSE IF ctr >= Len(leftPath) \/ ctr >= Len(rightPath) THEN -1
  ELSE IF leftPath[ctr + 1] # rightPath[ctr + 1] THEN ctr
  ELSE commonCtr(leftPath, rightPath, ctr + 1, maxLength)

\* ConstructBatchedProof: [kind, leftPath, rightPath, commonPath], kind one of
\* "ok", "error", "panic"
ConstructBatchedProof(d, leftLvl, leftIdx, rightLvl, rightIdx) ==
  LET failed(kind) == [kind |-> kind, leftPath |-> << >>, rightPath |-> << >>,
                       commonPath |-> << >>]
  IN
  IF leftLvl < 1 \/ leftLvl >= Depth(d) \/ rightLvl < 1 \/ rightLvl >= Depth(d)
    THEN failed("error")
  ELSE IF leftIdx < 0 \/ rightIdx < 0 THEN failed("error")
  ELSE LET leftProof == ConstructProof(d, leftLvl, leftIdx)
           rightProof == ConstructProof(d, rightLvl, rightIdx)
       IN  IF leftProof.err \/ rightProof.err THEN failed("error")
           ELSE LET lp == leftProof.proof.path
                    rp == rightProof.proof.path
                    ctr == commonCtr(lp, rp, 0, max(Len(lp), Len(rp)))
                IN  IF ctr < 0 THEN failed("panic")
                    ELSE [kind |-> "ok",
                          leftPath |-> SubSeq(lp, ctr + 1, Len(lp)),
                          rightPath |-> SubSeq(rp, ctr + 1, Len(rp)),
                          commonPath |-> SubSeq(rp, 1, ctr)]

(***************************************************************************)
(* Proof validation                                                        *)
(***************************************************************************)

\* var parent *Node before the loop has run
NilNode == << >>

\* A faulty variant of parentOf: the all-zero sibling is hashed like any other node.
parentOf_NoSentinel(currentNode, sibling, currentIdx) ==
  IF getSiblingIdx(currentIdx) % 2 = 1
    THEN computeNode(currentNode, sibling)
    ELSE computeNode(sibling, currentNode)

\* A faulty variant of parentOf: the sibling is always taken as the right child.
parentOf_NoParity(currentNode, sibling, currentIdx) ==
  IF sibling = ZeroNode
    THEN truncatedHash(currentNode)
    ELSE computeNode(currentNode, sibling)

\* The body of the validator's loop: the parent of currentNode and sibling.
parentOf(currentNode, sibling, currentIdx) ==
  IF sibling = ZeroNode
    THEN truncatedHash(currentNode)
    ELSE IF getSiblingIdx(currentIdx) % 2 = 1
           THEN computeNode(currentNode, sibling)
           ELSE computeNode(sibling, currentNode)

RECURSIVE validateLoop(_, _, _, _, _)
\* for currentLvl := d.lvl; currentLvl >= 1; currentLvl--
\* [panic, parent]: panic when d.path[currentLvl-1] is out of range
validateLoop(d, currentNode, currentIdx, currentLvl, parent) ==
  IF currentLvl < 1 THEN [panic |-> FALSE, parent |-> parent]
  ELSE IF currentLvl - 1 >= Len(d.path) THEN [panic |-> TRUE, parent |-> NilNode]
  ELSE LET next == parentOf(currentNode, d.path[currentLvl], currentIdx)
       IN  validateLoop(d, next, currentIdx \div 2, currentLvl - 1, next)

\* A faulty variant of ValidateSubtree: the final comparison is inverted.
ValidateSubtree_Inverted(d, subtree, root) ==
  LET run == validateLoop(d, subtree, d.idx, d.lvl, NilNode)
  IN  IF run.panic \/ run.parent = NilNode THEN "panic"
      ELSE IF run.parent = root THEN "false" ELSE "true"

\* A faulty variant of ValidateSubtree: the root is never compared.
ValidateSubtree_NoRootCheck(d, subtree, root) ==
  LET run == validateLoop(d, subtree, d.idx, d.lvl, NilNode)
  IN  IF run.panic \/ run.parent = NilNode THEN "panic" ELSE "true"

\* ValidateSubtree: "true", "false", or "panic" when the run aborts (an index
\* out of range of d.path, or parent still nil at parent.data)
ValidateSubtree(d, subtree, root) ==
  LET run == validateLoop(d, subtree, d.idx, d.lvl, NilNode)
  IN  IF run.panic \/ run.parent = NilNode THEN "panic"
      ELSE IF run.parent # root THEN "false" ELSE "true"

ValidateLeaf(d, data, root) == ValidateSubtree(d, truncatedHash(data), root)

(***************************************************************************)
(* Inputs of the Merkle operations                                         *)
(***************************************************************************)

\* The leaf byte-strings: one-token strings 10, 11, ...
LeafBytes(v) == <<9 + v>>

\* Leaf sequences of up to MaxLeaves leaves, one for each pattern of equal
\* and distinct leaves (leaf i is one of the values used before it or the
\* next unused one), the empty sequence included.
PatternLeafInputs ==
  UNION { { [i \in 1..n |-> LeafBytes(s[i])] :
              s \in { t \in [1..n -> 1..n] :
                        \A i \in 1..n :
                          t[i] <= 1 + Cardinality({t[j] : j \in 1..(i - 1)})
                          /\ \A v \in 1..(t[i] - 1) : \E j \in 1..(i - 1) : t[j] = v } }
          : n \in 0..MaxLeaves }

\* Leaves whose bytes are the bytes of nodes: the 32 bytes of another leaf's
\* node, and the 64 bytes of two leaf nodes side by side (the leaf node is
\* then the node computeNode makes of the two).
NodeBytesLeafInputs ==
  LET a == LeafBytes(1)
      b == LeafBytes(2)
  IN  { <<a, truncatedHash(a)>>,
        <<a, b, truncatedHash(a) \o truncatedHash(b)>>,
        <<a, b, truncatedHash(truncatedHash(a) \o truncatedHash(b))>> }

LeafInputs == PatternLeafInputs \cup NodeBytesLeafInputs

\* A digest of bytes that are in no tree.
ForeignNode == truncatedHash(<<99>>)

\* A tree is built and the caller is between two calls.
Built == nodes # << >> /\ op = "idle"

\* Every node of the tree d.
LevelNodes(d, lvl) ==
  IF lvl + 1 \in 1..Len(d) THEN {d[lvl + 1][i] : i \in 1..Len(d[lvl + 1])} ELSE {}

\* Every node of the tree d.
TreeNodes(d) == UNION {LevelNodes(d, lvl) : lvl \in 0..(Len(d) - 1)}

\* The proofs handed to the validator: the issued proof, and the issued proof
\* with one path entry, its index or its level replaced.
ProofInputs(d, p) ==
  {p}
  \cup { [p EXCEPT !.path[k] = n] :
           k \in 1..Len(p.path),
           n \in {ZeroNode, ForeignNode} \cup LevelNodes(d, p.lvl) }
  \cup { [p EXCEPT !.idx = i] : i \in 0..(2 ^ p.lvl - 1) }
  \cup { [p EXCEPT !.lvl = l] : l \in 0..(Len(p.path) + 1) }

SubtreeInputs(d, p) == LevelNodes(d, p.lvl) \cup {GetRoot(d), ForeignNode}

RootInputs(d) == {GetRoot(d), ForeignNode}

NoCall == [none |-> TRUE]

(***************************************************************************)
(* The operations on a tree                                                *)
(***************************************************************************)

InitMerkle ==
  /\ leafData \in LeafInputs
  /\ nodes = << >>
  /\ issued = EmptyProof
  /\ issuedErr = FALSE
  /\ op = "init"
  /\ call = NoCall
  /\ result = "none"

GrowTreeStep ==
  /\ op = "init"
  /\ LET tree == GrowTree(leafData)
     IN  /\ nodes' = tree.nodes
         /\ result' = IF tree.err THEN "error" ELSE "ok"
  /\ op' = "GrowTree"
  /\ call' = [leafData |-> leafData]
  /\ UNCHANGED <<leafData, issued, issuedErr>>

ValidateStep ==
  /\ Built
  /\ result' = IF Validate(nodes) THEN "true" ELSE "false"
  /\ op' = "Validate"
  /\ call' = NoCall
  /\ UNCHANGED <<leafData, nodes, issued, issuedErr>>

ValidateFromLeafsStep ==
  /\ Built
  /\ \E leafs \in {leafData, Tail(leafData), leafData \o <<LeafBytes(1)>>,
                   [i \in 1..Len(leafData) |-> leafData[Len(leafData) + 1 - i]]} :
       /\ result' = IF ValidateFromLeafs(nodes, leafs) THEN "true" ELSE "false"
       /\ call' = [leafs |-> leafs]
  /\ op' = "ValidateFromLeafs"
  /\ UNCHANGED <<leafData, nodes, issued, issuedErr>>

ConstructProofStep ==
  /\ Built
  /\ \E lvl \in 0..Depth(nodes), idx \in -1..Leafs(nodes) :
       LET r == ConstructProof(nodes, lvl, idx)
       IN  /\ issued' = r.proof
           /\ issuedErr' = r.err
           /\ result' = IF r.err THEN "error" ELSE "ok"
           /\ call' = [lvl |-> lvl, idx |-> idx]
  /\ op' = "ConstructProof"
  /\ UNCHANGED <<leafData, nodes>>

ConstructBatchedProofStep ==
  /\ Built
  /\ \E leftLvl \in 0..Depth(nodes), rightLvl \in 0..Depth(nodes),
        leftIdx \in -1..(Leafs(nodes) - 1), rightIdx \in -1..(Leafs(nodes) - 1) :
       LET r == ConstructBatchedProof(nodes, leftLvl, leftIdx, rightLvl, rightIdx)
       IN  /\ result' = r.kind
           /\ call' = [leftLvl |-> leftLvl, leftIdx |-> leftIdx,
                       rightLvl |-> rightLvl, rightIdx |-> rightIdx,
                       leftPath |-> r.leftPath, rightPath |-> r.rightPath,
                       commonPath |-> r.commonPath]
  /\ op' = "ConstructBatchedProof"
  /\ UNCHANGED <<leafData, nodes, issued, issuedErr>>

ValidateSubtreeStep ==
  /\ Built
  /\ \E d \in ProofInputs(nodes, issued),
        subtree \in SubtreeInputs(nodes, issued),
        root \in RootInputs(nodes) :
       /\ result' = ValidateSubtree(d, subtree, root)
       /\ call' = [d |-> d, subtree |-> subtree, root |-> root]
  /\ op' = "ValidateSubtree"
  /\ UNCHANGED <<leafData, nodes, issued, issuedErr>>

ValidateLeafStep ==
  /\ Built
  /\ \E data \in {leafData[i] : i \in 1..Len(leafData)} \cup {<<99>>},
        root \in RootInputs(nodes) :
       /\ result' = ValidateLeaf(issued, data, root)
       /\ call' = [d |-> issued, data |-> data, root |-> root]
  /\ op' = "ValidateLeaf"
  /\ UNCHANGED <<leafData, nodes, issued, issuedErr>>

\* The caller takes the result and is ready for the next call.
Return ==
  /\ op \notin {"init", "idle"}
  /\ op' = "idle"
  /\ call' = NoCall
  /\ result' = "none"
  /\ UNCHANGED <<leafData, nodes, issued, issuedErr>>

InclIdle ==
  /\ veriferData = [none |-> TRUE]
  /\ ip = [none |-> TRUE]
  /\ ret = [none |-> TRUE]

Init == InitMerkle /\ InclIdle

Next ==
  \/ GrowTreeStep /\ UNCHANGED inclVars
  \/ ValidateStep /\ UNCHANGED inclVars
  \/ ValidateFromLeafsStep /\ UNCHANGED inclVars
  \/ ConstructProofStep /\ UNCHANGED inclVars
  \/ ValidateSubtreeStep /\ UNCHANGED inclVars
  \/ ValidateLeafStep /\ UNCHANGED inclVars
  \/ Return /\ UNCHANGED inclVars

Spec == Init /\ [][Next]_vars

\* The batched proofs of a tree
NextBatch ==
  \/ GrowTreeStep /\ UNCHANGED inclVars
  \/ ConstructBatchedProofStep /\ UNCHANGED inclVars
  \/ Return /\ UNCHANGED inclVars

SpecBatch == Init /\ [][NextBatch]_vars

(***************************************************************************)
(* Properties of the Merkle tree                                           *)
(***************************************************************************)

\* The least k with 2^k >= n, for n >= 1
CeilLog2(n) == CHOOSE k \in 0..n : 2 ^ k >= n /\ \A j \in 0..(k - 1) : 2 ^ j < n

\* ceil(a / b)
CeilDiv(a, b) == (a + b - 1) \div b

\* A tree is stored (GrowTree has returned without an error).
HasTree == nodes # << >>

\* The issued proof is one ConstructProof returned without an error.
HasProof == HasTree /\ ~issuedErr /\ issued.lvl >= 1

\* The node the issued proof was extracted for.
IssuedNode == NodeAt(nodes, issued.lvl, issued.idx)

\* C10: the tree built from n >= 1 leaves has ceil(log2 n) + 1 levels, level l
\* holds ceil(n / 2^(H-1-l)) nodes, the leaf row is the truncated hashes of
\* the leaf bytes in input order, every interior node is the combination of
\* its two children, or the truncated hash of its left child when the right
\* child is absent, and Validate and ValidateFromLeafs(leaves) return true.
TreeWellFormed ==
  HasTree =>
    LET n == Len(leafData)
        H == CeilLog2(n) + 1
    IN  /\ Depth(nodes) = H
        /\ Leafs(nodes) = n
        /\ \A l \in 0..(H - 1) : Width(nodes, l) = CeilDiv(n, 2 ^ (H - 1 - l))
        /\ \A i \in 0..(n - 1) :
             NodeAt(nodes, H - 1, i) = truncatedHash(leafData[i + 1])
        /\ \A l \in 0..(H - 2) : \A i \in 0..(Width(nodes, l) - 1) :
             NodeAt(nodes, l, i) =
               IF 2 * i + 1 < Width(nodes, l + 1)
                 THEN computeNode(NodeAt(nodes, l + 1, 2 * i),
                                  NodeAt(nodes, l + 1, 2 * i + 1))
                 ELSE truncatedHash(NodeAt(nodes, l + 1, 2 * i))
        /\ (op = "Validate" => result = "true")
        /\ (op = "ValidateFromLeafs" /\ call.leafs = leafData => result = "true")

\* A tree of three distinct leaves a, b, c has been validated: node(1,1) is
\* the hash of the lone leaf node and the root combines node(1,0) with it.
TreeWellFormedWitness ==
  /\ HasTree
  /\ op = "Validate"
  /\ result = "true"
  /\ leafData = <<LeafBytes(1), LeafBytes(2), LeafBytes(3)>>
  /\ NodeAt(nodes, 1, 1) = truncatedHash(truncatedHash(LeafBytes(3)))
  /\ GetRoot(nodes) = computeNode(NodeAt(nodes, 1, 0), NodeAt(nodes, 1, 1))

\* C1: ConstructProof succeeds for every position of the tree below the root,
\* and the proof it returns validates the node at that position, and the leaf
\* bytes at a leaf position, against the root.
RoundTrip ==
  /\ (op = "ConstructProof" /\ call.lvl >= 1 /\ call.lvl <= Depth(nodes) - 1
        /\ call.idx >= 0 /\ call.idx < Width(nodes, call.lvl))
       => (result = "ok" /\ ~issuedErr /\ Len(issued.path) = call.lvl
           /\ issued.lvl = call.lvl /\ issued.idx = call.idx)
  /\ (op = "ValidateSubtree" /\ HasProof /\ call.d = issued
        /\ call.subtree = IssuedNode /\ call.root = GetRoot(nodes))
       => result = "true"
  /\ (op = "ValidateLeaf" /\ HasProof /\ issued.lvl = Depth(nodes) - 1
        /\ call.data = leafData[issued.idx + 1] /\ call.root = GetRoot(nodes))
       => result = "true"

\* A proof with an absent sibling on its path (an incomplete tree) has
\* validated its node against the root.
RoundTripWitness ==
  /\ op = "ValidateSubtree"
  /\ HasProof
  /\ call.d = issued
  /\ call.subtree = IssuedNode
  /\ call.root = GetRoot(nodes)
  /\ \E k \in 1..Len(issued.path) : issued.path[k] = ZeroNode
  /\ issued.lvl >= 2
  /\ result = "true"

\* C2 as claimed: the proof extracted for index i, replayed against the node
\* stored at any other index j of the same level, is rejected.
IndexBinding ==
  (op = "ValidateSubtree" /\ HasProof /\ call.d = issued
     /\ call.root = GetRoot(nodes)
     /\ \E j \in 0..(Width(nodes, issued.lvl) - 1) :
          j # issued.idx /\ call.subtree = NodeAt(nodes, issued.lvl, j))
    => result = "false"

\* C2 as amended: the proof extracted for index i, replayed against the node
\* stored at another index j of the same level, is rejected when the two
\* stored nodes differ.
IndexBindingDistinctNodes ==
  (op = "ValidateSubtree" /\ HasProof /\ call.d = issued
     /\ call.root = GetRoot(nodes)
     /\ \E j \in 0..(Width(nodes, issued.lvl) - 1) :
          /\ j # issued.idx
          /\ call.subtree = NodeAt(nodes, issued.lvl, j)
          /\ NodeAt(nodes, issued.lvl, j) # IssuedNode)
    => result = "false"

\* The proof of one leaf has been replayed against a different leaf node of
\* the same tree and was rejected.
IndexBindingWitness ==
  /\ op = "ValidateSubtree"
  /\ HasProof
  /\ call.d = issued
  /\ call.root = GetRoot(nodes)
  /\ issued.lvl = Depth(nodes) - 1
  /\ call.subtree \in LevelNodes(nodes, issued.lvl) \ {IssuedNode}
  /\ result = "false"

RECURSIVE FoldedAt(_, _, _)
\* The node the validator folds at level k while replaying proof p from the
\* subtree x: x at level p.lvl, and above it the parent folded one level down.
FoldedAt(p, x, k) ==
  IF k >= p.lvl THEN x
  ELSE parentOf(FoldedAt(p, x, k + 1), p.path[k + 1], shr(p.idx, p.lvl - (k + 1)))

\* The index idx2 differs from p.idx in a bit whose level carries a sibling
\* that is neither the zero sentinel nor equal to the node folded there.
DiffersAtBoundLevel(p, x, idx2) ==
  \E k \in 1..p.lvl :
    /\ shr(p.idx, p.lvl - k) % 2 # shr(idx2, p.lvl - k) % 2
    /\ p.path[k] # ZeroNode
    /\ p.path[k] # FoldedAt(p, x, k)

\* The call replays the issued path and level, with another index below
\* 2^lvl, on a subtree and root that the issued proof validates.
ReplayedWithOtherIndex ==
  /\ op = "ValidateSubtree"
  /\ HasProof
  /\ call.d.path = issued.path
  /\ call.d.lvl = issued.lvl
  /\ call.d.idx # issued.idx
  /\ call.d.idx >= 0 /\ call.d.idx < 2 ^ issued.lvl
  /\ ValidateSubtree(issued, call.subtree, call.root) = "true"

\* C3 as claimed: a path that validates a subtree at index idx is rejected
\* with the same subtree at every other index, paths with the zero sentinel
\* included.
IndexAttested == ReplayedWithOtherIndex => result = "false"

\* C3 as amended: the replay at another index is rejected exactly when the
\* two indices differ in a bit at whose level the path holds a sibling that
\* is not the zero sentinel and not equal to the node folded at that level;
\* index bits of the other levels are not attested.
IndexAttestedAtBoundLevels ==
  ReplayedWithOtherIndex =>
    (result = "false" <=> DiffersAtBoundLevel(issued, call.subtree, call.d.idx))

\* A leaf proof of a tree of four leaves, none of its siblings absent, has
\* been replayed at another index and was rejected.
IndexAttestedWitness ==
  /\ ReplayedWithOtherIndex
  /\ issued.lvl = 2
  /\ \A k \in 1..2 : issued.path[k] # ZeroNode
  /\ DiffersAtBoundLevel(issued, call.subtree, call.d.idx)
  /\ result = "false"

\* The two single proofs of the batched call exist.
BothProofsExist ==
  /\ op = "ConstructBatchedProof"
  /\ ~ConstructProof(nodes, call.leftLvl, call.leftIdx).err
  /\ ~ConstructProof(nodes, call.rightLvl, call.rightIdx).err

\* C4: whenever the two single proofs exist, ConstructBatchedProof returns
\* normally, the common path followed by the left (right) path is the left
\* (right) single proof's path, and the common path is the longest prefix on
\* which the two single paths agree.
BatchedDecomposition ==
  BothProofsExist =>
    LET lp == ConstructProof(nodes, call.leftLvl, call.leftIdx).proof.path
        rp == ConstructProof(nodes, call.rightLvl, call.rightIdx).proof.path
        c == Len(call.commonPath)
    IN  /\ result = "ok"
        /\ call.commonPath \o call.leftPath = lp
        /\ call.commonPath \o call.rightPath = rp
        /\ ~(c < Len(lp) /\ c < Len(rp) /\ lp[c + 1] = rp[c + 1])

\* C5: ValidateSubtree returns true or false on every proof value.
ValidatorTotal == op = "ValidateSubtree" => result \in {"true", "false"}

\* The call differs from the honest one (the issued proof, its node, the
\* tree's root) in exactly one path entry, or only in the root, or only in
\* the subtree.
SingleReplacement ==
  /\ op = "ValidateSubtree"
  /\ HasProof
  /\ call.d.lvl = issued.lvl
  /\ call.d.idx = issued.idx
  /\ Len(call.d.path) = Len(issued.path)
  /\ LET changed == {k \in 1..Len(issued.path) : call.d.path[k] # issued.path[k]}
         pathN == Cardinality(changed)
         rootN == IF call.root # GetRoot(nodes) THEN 1 ELSE 0
         subN == IF call.subtree # IssuedNode THEN 1 ELSE 0
     IN  pathN + rootN + subN = 1

\* C6: a validating proof with one path entry (a sibling or the zero
\* sentinel), the root, or the subtree replaced by a different node is
\* rejected.
TamperEvident == SingleReplacement => result = "false"

\* A real sibling of a validating proof was replaced by the zero sentinel,
\* and the proof was rejected.
TamperEvidentWitness ==
  /\ SingleReplacement
  /\ \E k \in 1..Len(issued.path) :
       issued.path[k] # ZeroNode /\ call.d.path[k] = ZeroNode
  /\ result = "false"

(***************************************************************************)
(* uint64 arithmetic.  A number is a little-endian sequence of base-256    *)
(* limbs: 8 limbs for a uint64, 16 for the exact product of two of them.   *)
(***************************************************************************)

\* The limbs of a small non-negative integer
Limbs(n, len) == [i \in 1..len |-> shr(n, 8 * (i - 1)) % 256]

\* 2^e in len limbs; zero when the bit is shifted out (e >= 8 * len)
Pow2(e, len) == [i \in 1..len |-> IF e \div 8 = i - 1 THEN 2 ^ (e % 8) ELSE 0]

\* x extended with zero limbs to len limbs
Extend(x, len) == [i \in 1..len |-> IF i <= Len(x) THEN x[i] ELSE 0]

RECURSIVE SumTo(_, _)
\* f[1] + ... + f[n]
SumTo(f, n) == IF n = 0 THEN 0 ELSE f[n] + SumTo(f, n - 1)

\* Column k of the schoolbook product: the sum of a[i] * b[j], i + j = k + 1
Column(a, b, k) ==
  SumTo([i \in 1..Len(a) |->
           IF k + 1 - i \in 1..Len(b) THEN a[i] * b[k + 1 - i] ELSE 0], Len(a))

RECURSIVE Carry(_, _, _)
\* The columns cols from position k on, with carry c, as limbs
Carry(cols, k, c) ==
  IF k > Len(cols) THEN << >>
  ELSE <<(cols[k] + c) % 256>> \o Carry(cols, k + 1, (cols[k] + c) \div 256)

\* The exact product of a and b, in Len(a) + Len(b) limbs
MulExact(a, b) ==
  Carry([k \in 1..(Len(a) + Len(b)) |-> Column(a, b, k)], 1, 0)

\* a * b in uint64: the exact product modulo 2^64
MulU64(a, b) == SubSeq(MulExact(a, b), 1, 8)

\* 1 << e in uint64
ShlOneU64(e) == Pow2(e, 8)

RECURSIVE LessFrom(_, _, _)
\* a < b, deciding on limbs k, k-1, ..., 1
LessFrom(a, b, k) ==
  IF k = 0 THEN FALSE
  ELSE IF a[k] # b[k] THEN a[k] < b[k]
  ELSE LessFrom(a, b, k - 1)

\* a < b for two numbers of any lengths
Less(a, b) ==
  LET len == max(Len(a), Len(b))
  IN  LessFrom(Extend(a, len), Extend(b, len), len)

\* Equality of the numbers two limb sequences stand for
SameNumber(a, b) ==
  LET len == max(Len(a), Len(b)) IN Extend(a, len) = Extend(b, len)

(***************************************************************************)
(* The inclusion verifier                                                  *)
(*                                                                         *)
(* A merkletree.ProofData is [depth, index, root] here: the length of its  *)
(* path, its index, and the node its path folds the verifier's input to.   *)
(* A commitment is a label; the digest is not modelled in this part.       *)
(***************************************************************************)

BytesInDataSegmentIndexEntry == 64

\* commcid.CIDToPieceCommitmentV1: [err, node]
CIDToPieceCommitmentV1(commPc) ==
  [err |-> ~commPc.isPieceCommitment, node |-> commPc.digest]

\* ProofData.Depth
ProofDepth(d) == d.depth

\* ProofData.Index
ProofIndex(d) == d.index

\* ProofData.ComputeRoot: [err, root]; no root when the index is out of range
\* for the path length
ComputeRoot(d, subtree) ==
  IF Less(d.index, Pow2(d.depth, 9))
    THEN [err |-> FALSE, root |-> d.root]
    ELSE [err |-> TRUE, root |-> "nil"]

\* MakeDataSegmentIndexEntry: [err], an error when the offset or the size is
\* not a multiple of the 32 bytes of a node
MakeDataSegmentIndexEntry(commPc, dataOffset, size) ==
  [err |-> dataOffset[1] % 32 # 0 \/ size[1] % 32 # 0]

Failed(kind, err) ==
  [kind |-> kind, err |-> err, CommPa |-> "nil", SizePa |-> Limbs(0, 8),
   dataOffset |-> Limbs(0, 8)]

\* ComputeExpectedAuxData: [kind, err, CommPa, SizePa, dataOffset]; kind is
\* "ok", "error" or "panic" (the dereference of a nil root)
ComputeExpectedAuxData(proof, data) ==
  LET commPc == CIDToPieceCommitmentV1(data.CommPc)
      first == ComputeRoot(proof.ProofSubtree, commPc.node)
      assumedSizePa == MulU64(ShlOneU64(ProofDepth(proof.ProofSubtree)), data.SizePc)
      dataOffset == MulU64(ProofIndex(proof.ProofSubtree), data.SizePc)
      en == MakeDataSegmentIndexEntry(commPc.node, dataOffset, data.SizePc)
      second == ComputeRoot(proof.ProofIndex, "enNode")
      assumedSizePa2 == MulU64(ShlOneU64(ProofDepth(proof.ProofIndex)),
                               Limbs(BytesInDataSegmentIndexEntry, 8))
  IN  IF commPc.err THEN Failed("error", "InvalidPieceCommitment")
      ELSE IF first.err THEN Failed("error", "SubtreeProofInvalid")
      ELSE IF en.err THEN Failed("error", "InvalidAlignment")
      ELSE IF second.root = "nil" THEN Failed("panic", "nil dereference")
      ELSE IF second.root # first.root THEN Failed("error", "CommitmentMismatch")
      ELSE IF assumedSizePa2 # assumedSizePa THEN Failed("error", "SizeMismatch")
      ELSE [kind |-> "ok", err |-> "nil", CommPa |-> first.root,
            SizePa |-> assumedSizePa, dataOffset |-> dataOffset]

\* The padded piece sizes given to the verifier: 32, 96, 128, 2^16, 2^40
SizePcInputs == {Pow2(5, 8), Limbs(96, 8), Pow2(7, 8), Pow2(16, 8), Pow2(40, 8)}

\* The path lengths of the proofs given to the verifier
DepthInputs == {0, 2, 3, 34, 58, 60}

\* The indices of the proofs given to the verifier: 0, 2, 5, 2^50
IndexInputs == {Limbs(0, 8), Limbs(2, 8), Limbs(5, 8), Pow2(50, 8)}

ProofDataInputs ==
  [depth : DepthInputs, index : IndexInputs, root : {"commA", "commB"}]

MerkleIdle ==
  /\ leafData = << >>
  /\ nodes = << >>
  /\ issued = EmptyProof
  /\ issuedErr = FALSE
  /\ op = "none"
  /\ call = NoCall
  /\ result = "none"

InitIncl ==
  /\ veriferData \in [CommPc : [isPieceCommitment : BOOLEAN, digest : {"commPc"}],
                      SizePc : SizePcInputs]
  /\ ip \in [ProofSubtree : ProofDataInputs, ProofIndex : ProofDataInputs]
  /\ ret = [none |-> TRUE]
  /\ MerkleIdle

ComputeExpectedAuxDataStep ==
  /\ ret = [none |-> TRUE]
  /\ ret' = ComputeExpectedAuxData(ip, veriferData)
  /\ UNCHANGED <<veriferData, ip>>
  /\ UNCHANGED merkleVars

NextIncl == ComputeExpectedAuxDataStep

SpecIncl == InitIncl /\ [][NextIncl]_vars

(***************************************************************************)
(* Properties of the inclusion verifier                                    *)
(***************************************************************************)

Returned == ret # [none |-> TRUE]

\* The exact value of (1 << depth) * SizePc for the subtree proof
ExactSizePa == MulExact(Pow2(ProofDepth(ip.ProofSubtree), 8), veriferData.SizePc)

\* The exact value of idx * SizePc for the subtree proof
ExactDataOffset == MulExact(ProofIndex(ip.ProofSubtree), veriferData.SizePc)

\* The exact value of (1 << depth) * 64 for the index proof
ExactSizePa2 ==
  MulExact(Pow2(ProofDepth(ip.ProofIndex), 8), Limbs(BytesInDataSegmentIndexEntry, 8))

\* The call got as far as deriving the sizes: the commitment decoded and the
\* subtree proof replayed.
ReachedSizes ==
  /\ Returned
  /\ ~CIDToPieceCommitmentV1(veriferData.CommPc).err
  /\ ~ComputeRoot(ip.ProofSubtree, "commPc").err

\* C7: when the exact value of (1 << depth) * SizePc, or of idx * SizePc,
\* exceeds 2^63, the verifier returns a SizeOverflow error and no AuxData.
SizeOverflowIsAnError ==
  (ReachedSizes /\ (Less(Pow2(63, 8), ExactSizePa) \/ Less(Pow2(63, 8), ExactDataOffset)))
    => (ret.kind = "error" /\ ret.err = "SizeOverflow")

\* C8: when the verifier returns AuxData, SizePa is the exact product
\* 2^subtreeDepth * SizePc and the exact product 2^indexDepth * 64, and the
\* offset of the index entry is the exact product idx * SizePc.
CrossCheckExact ==
  (Returned /\ ret.kind = "ok") =>
    /\ SameNumber(ret.SizePa, ExactSizePa)
    /\ SameNumber(ret.SizePa, ExactSizePa2)
    /\ SameNumber(ret.dataOffset, ExactDataOffset)

\* C9: when the replay of the index proof yields no root, the verifier
\* returns an IndexProofInvalid error.
IndexReplayFailureIsAnError ==
  (ReachedSizes
     /\ ~MakeDataSegmentIndexEntry("commPc", MulU64(ProofIndex(ip.ProofSubtree), veriferData.SizePc),
                                   veriferData.SizePc).err
     /\ ComputeRoot(ip.ProofIndex, "enNode").err)
    => (ret.kind = "error" /\ ret.err = "IndexProofInvalid")

====
